---------------------------- MODULE Spec2Model ----------------------------
(***************************************************************************)
(* State-machine model of the in-browser image editor of js/app.js: the    *)
(* per-pixel filter pipeline (applyFilters), the view compositor           *)
(* (updateMainCanvasView) and the handlers that drive them.                *)
(*                                                                         *)
(* JavaScript numbers are modelled by exact decimal arithmetic: every      *)
(* stage of the pipeline keeps its values as integers over a fixed power   *)
(* of ten (times 3 after the division by 765), so no product or sum is     *)
(* rounded.  The IEEE-754 doubles of the code differ from these exact      *)
(* values by less than 1e-9, which the final store into the 8-bit clamped  *)
(* array absorbs everywhere except at an exact tie.                        *)
(***************************************************************************)
EXTENDS Integers, Sequences, FiniteSets, TLC

(***************************************************************************)
(* Exact integers wider than 32 bits: five limbs, least significant first, *)
(* the four low limbs in 0..LimbBase-1 and the top limb signed, so that    *)
(* value = l1 + l2*B + l3*B^2 + l4*B^3 + l5*B^4.                           *)
(***************************************************************************)
LimbBase == 10^4

Norm(x) ==
    LET c1 == x[1] \div LimbBase
        v2 == x[2] + c1
        c2 == v2 \div LimbBase
        v3 == x[3] + c2
        c3 == v3 \div LimbBase
        v4 == x[4] + c3
        c4 == v4 \div LimbBase
    IN  << x[1] % LimbBase, v2 % LimbBase, v3 % LimbBase, v4 % LimbBase, x[5] + c4 >>

BInt(n) == Norm(<< n, 0, 0, 0, 0 >>)
BAdd(x, y) == Norm(<< x[1] + y[1], x[2] + y[2], x[3] + y[3], x[4] + y[4], x[5] + y[5] >>)
BSub(x, y) == Norm(<< x[1] - y[1], x[2] - y[2], x[3] - y[3], x[4] - y[4], x[5] - y[5] >>)
BMul(x, k) == Norm(<< x[1] * k, x[2] * k, x[3] * k, x[4] * k, x[5] * k >>)
BZero == << 0, 0, 0, 0, 0 >>
BSign(x) == IF x[5] < 0 THEN -1 ELSE IF x = BZero THEN 0 ELSE 1
BLess(x, y) == BSign(BSub(x, y)) < 0
BLeq(x, y) == BSign(BSub(x, y)) <= 0

(***************************************************************************)
(* The scales of the pipeline's stages.  A value v of the code is held as  *)
(* the integer v * scale of its stage.                                     *)
(***************************************************************************)
ContrastScale == 10^4          \* contrastFactor = (c + 100)^2 / 10^4
GrayWeightScale == 10^3        \* 0.299, 0.587, 0.114 and the sepia matrix
PercentScale == 10^2           \* slider / 100
SatScale == BMul(BInt(10^8), 10)                 \* 10^4 * 10^3 * 10^2
FullBrightness == BMul(SatScale, 765)            \* (r+g+b)/765 = 1
HSScale == BMul(SatScale, 300)                   \* 10^9 * 765 * 100 / 255
FinalScale == BMul(BMul(HSScale, 10^3), 10^2)    \* 3 * 10^16

\* clamp(value, min, max) on exact values of one scale
clamp(value, min, max) ==
    LET lower == IF BLess(max, value) THEN max ELSE value       \* Math.min(max, value)
    IN  IF BLess(lower, min) THEN min ELSE lower                \* Math.max(min, ...)

(***************************************************************************)
(* applyFilters, step 1: the filter values read from the sliders.  A range *)
(* input's value parses to the integer the slider holds.  contrastFactor   *)
(* is held over ContrastScale, the three percentages over PercentScale.    *)
(***************************************************************************)
parseInt(value) == value

\* Variant: contrastFactor is not squared.
readFilterValuesUnsquared(s) ==
    [ exposureValue    |-> parseInt(s.exposure),
      contrastFactor   |-> (parseInt(s.contrast) + 100) * PercentScale,
      highlightValue   |-> parseInt(s.highlights),
      shadowValue      |-> parseInt(s.shadows),
      saturationValue  |-> parseInt(s.saturation),
      temperatureValue |-> parseInt(s.temperature),
      tintValue        |-> parseInt(s.tint),
      sepiaValue       |-> parseInt(s.sepia) ]

readFilterValues(s) ==
    [ exposureValue    |-> parseInt(s.exposure),
      contrastFactor   |-> (parseInt(s.contrast) + 100) * (parseInt(s.contrast) + 100),
      highlightValue   |-> parseInt(s.highlights),
      shadowValue      |-> parseInt(s.shadows),
      saturationValue  |-> parseInt(s.saturation),
      temperatureValue |-> parseInt(s.temperature),
      tintValue        |-> parseInt(s.tint),
      sepiaValue       |-> parseInt(s.sepia) ]

(***************************************************************************)
(* applyFilters, step 3: the body of the pixel loop, one operator per      *)
(* filter.  c is the triple [r, g, b] at the scale of the stage before.    *)
(***************************************************************************)
\* Variant: the channels are clamped to [0, 255] right after the exposure step.
exposureStepClamped(c, exposureValue) ==
    LET cut(x) == IF x < 0 THEN 0 ELSE IF x > 255 THEN 255 ELSE x
    IN  [ r |-> cut(c.r + exposureValue), g |-> cut(c.g + exposureValue),
          b |-> cut(c.b + exposureValue) ]

\* Variant: the offset is twice the slider value.
exposureStepDoubled(c, exposureValue) ==
    [ r |-> c.r + 2 * exposureValue, g |-> c.g + 2 * exposureValue,
      b |-> c.b + 2 * exposureValue ]

\* r += exposureValue; ...                                      (scale 1)
exposureStep(c, exposureValue) ==
    [ r |-> c.r + exposureValue, g |-> c.g + exposureValue, b |-> c.b + exposureValue ]

\* r = contrastFactor * (r - 128) + 128; ...                    (scale 10^4)
contrastStep(c, contrastFactor) ==
    [ r |-> contrastFactor * (c.r - 128) + 128 * ContrastScale,
      g |-> contrastFactor * (c.g - 128) + 128 * ContrastScale,
      b |-> contrastFactor * (c.b - 128) + 128 * ContrastScale ]

\* Variant: the weights 0.6 and 0.4 are the same for both signs.
temperatureStepSymmetric(c, temperatureValue) ==
    [ c EXCEPT !.r = @ + temperatureValue * 6 * (ContrastScale \div 10),
               !.b = @ - temperatureValue * 4 * (ContrastScale \div 10) ]

\* 0.6 and 0.4 over ContrastScale are 6000 and 4000              (scale 10^4)
temperatureStep(c, temperatureValue) ==
    IF temperatureValue > 0
    THEN [ c EXCEPT !.r = @ + temperatureValue * 6 * (ContrastScale \div 10),
                    !.b = @ - temperatureValue * 4 * (ContrastScale \div 10) ]
    ELSE [ c EXCEPT !.r = @ + temperatureValue * 4 * (ContrastScale \div 10),
                    !.b = @ - temperatureValue * 6 * (ContrastScale \div 10) ]

\* Variant: a tint that is not positive leaves green alone.
tintStepOneSided(c, tintValue) ==
    IF tintValue > 0
    THEN [ c EXCEPT !.g = @ - tintValue * 5 * (ContrastScale \div 10) ]
    ELSE c

\* both branches of the sign test subtract 0.5 * tintValue       (scale 10^4)
tintStep(c, tintValue) ==
    IF tintValue > 0
    THEN [ c EXCEPT !.g = @ - tintValue * 5 * (ContrastScale \div 10) ]
    ELSE [ c EXCEPT !.g = @ - tintValue * 5 * (ContrastScale \div 10) ]

\* gray = 0.299 r + 0.587 g + 0.114 b                            (scale 10^7)
luma(c) ==
    BAdd(BAdd(BMul(BInt(c.r), 299), BMul(BInt(c.g), 587)), BMul(BInt(c.b), 114))

\* Variant: satFactor = saturationValue, the 1 + left out.
saturationStepNoUnit(c, saturationValue) ==
    LET gray == luma(c)
        satFactor == saturationValue
        mix(x) == BAdd(BMul(gray, PercentScale),
                       BMul(BSub(BMul(BInt(x), GrayWeightScale), gray), satFactor))
    IN  [ r |-> mix(c.r), g |-> mix(c.g), b |-> mix(c.b) ]

\* Variant: satFactor = 1 - saturationValue, the sign of the slider inverted.
saturationStepInverted(c, saturationValue) ==
    LET gray == luma(c)
        satFactor == PercentScale - saturationValue
        mix(x) == BAdd(BMul(gray, PercentScale),
                       BMul(BSub(BMul(BInt(x), GrayWeightScale), gray), satFactor))
    IN  [ r |-> mix(c.r), g |-> mix(c.g), b |-> mix(c.b) ]

\* satFactor = 1 + saturationValue; r = gray + (r - gray) * satFactor
\* c at scale 10^4, result at SatScale = 10^9
saturationStep(c, saturationValue) ==
    LET gray == luma(c)
        satFactor == PercentScale + saturationValue
        mix(x) == BAdd(BMul(gray, PercentScale),
                       BMul(BSub(BMul(BInt(x), GrayWeightScale), gray), satFactor))
    IN  [ r |-> mix(c.r), g |-> mix(c.g), b |-> mix(c.b) ]

\* brightness = clamp((r + g + b) / 765, 0, 1), held over FullBrightness
brightnessOf(c) == clamp(BAdd(BAdd(c.r, c.g), c.b), BZero, FullBrightness)

\* Variant: the shadow offset is weighted by brightness, as the highlight one.
highlightShadowStepSameWeight(c, highlightValue, shadowValue) ==
    LET brightness == brightnessOf(c)
        ha == IF highlightValue # 0 THEN BMul(brightness, highlightValue) ELSE BZero
        sa == IF shadowValue # 0 THEN BMul(brightness, shadowValue) ELSE BZero
        lift(x) == BAdd(BAdd(BMul(x, 300), ha), sa)
    IN  [ r |-> lift(c.r), g |-> lift(c.g), b |-> lift(c.b) ]

\* ha = highlightValue * brightness * 255, sa = shadowValue * (1 - brightness) * 255
\* c at SatScale, result at HSScale = 3 * 10^11
highlightShadowStep(c, highlightValue, shadowValue) ==
    LET brightness == brightnessOf(c)
        ha == IF highlightValue # 0 THEN BMul(brightness, highlightValue) ELSE BZero
        sa == IF shadowValue # 0
              THEN BMul(BSub(FullBrightness, brightness), shadowValue) ELSE BZero
        lift(x) == BAdd(BAdd(BMul(x, 300), ha), sa)
    IN  [ r |-> lift(c.r), g |-> lift(c.g), b |-> lift(c.b) ]

\* the sepia matrix, c at HSScale, result over HSScale * 10^3
sepiaMatrix(c) ==
    [ r |-> BAdd(BAdd(BMul(c.r, 393), BMul(c.g, 769)), BMul(c.b, 189)),
      g |-> BAdd(BAdd(BMul(c.r, 349), BMul(c.g, 686)), BMul(c.b, 168)),
      b |-> BAdd(BAdd(BMul(c.r, 272), BMul(c.g, 534)), BMul(c.b, 131)) ]

\* Variant: the two weights of the sepia blend exchanged.
sepiaStepSwapped(c, sepiaValue) ==
    LET s == sepiaMatrix(c)
        blend(x, sx) == BAdd(BMul(BMul(x, GrayWeightScale), sepiaValue),
                             BMul(sx, PercentScale - sepiaValue))
    IN  [ r |-> blend(c.r, s.r), g |-> blend(c.g, s.g), b |-> blend(c.b, s.b) ]

\* if (sepiaValue > 0) r = (1 - sepiaValue) * r + sepiaValue * sr; ...
\* c at HSScale, result at FinalScale = 3 * 10^16
sepiaStep(c, sepiaValue) ==
    LET s == sepiaMatrix(c)
        blend(x, sx) == BAdd(BMul(BMul(x, GrayWeightScale), PercentScale - sepiaValue),
                             BMul(sx, sepiaValue))
        keep(x) == BMul(BMul(x, GrayWeightScale), PercentScale)
    IN  IF sepiaValue > 0
        THEN [ r |-> blend(c.r, s.r), g |-> blend(c.g, s.g), b |-> blend(c.b, s.b) ]
        ELSE [ r |-> keep(c.r), g |-> keep(c.g), b |-> keep(c.b) ]

(***************************************************************************)
(* The store data[i] = v into the Uint8ClampedArray: v, already clamped to *)
(* [0, 255], is rounded to the nearest integer, an exact tie to the even   *)
(* one.  v is held over FinalScale = 3 * 10^16, so its top limb is         *)
(* floor(3 v).                                                             *)
(***************************************************************************)
toUint8Clamped(v) ==
    LET whole == v[5] \div 3
        third == v[5] % 3
        low0  == v[1] = 0 /\ v[2] = 0 /\ v[3] = 0
        half  == LimbBase \div 2
        up    == \/ third = 2
                 \/ third = 1 /\ v[4] > half
                 \/ third = 1 /\ v[4] = half /\ ~low0
        tie   == third = 1 /\ v[4] = half /\ low0
    IN  IF v[5] < 0 THEN 0
        ELSE IF whole >= 255 THEN 255
        ELSE IF up THEN whole + 1
        ELSE IF tie /\ whole % 2 = 1 THEN whole + 1
        ELSE whole

\* Variant: the store truncates and does not clamp.
storeChannelUnclamped(v) == v[5] \div 3

MaxChannel == BMul(FinalScale, 255)

\* step 4: data[i] = clamp(r, 0, 255); ...
storeChannel(v) == toUint8Clamped(clamp(v, BZero, MaxChannel))

(***************************************************************************)
(* A pixel is << r, g, b, a >>.  filterPixel is one turn of the loop: the  *)
(* seven filters in the order of the code, then the clamped store of r, g  *)
(* and b; data[i + 3] is not written.                                      *)
(***************************************************************************)
\* Variant: the loop clamps the channels after the exposure step.
filterChainClamped(px, f) ==
    sepiaStep(
      highlightShadowStep(
        saturationStep(
          tintStep(
            temperatureStep(
              contrastStep(
                exposureStepClamped([ r |-> px[1], g |-> px[2], b |-> px[3] ],
                                    f.exposureValue),
                f.contrastFactor),
              f.temperatureValue),
            f.tintValue),
          f.saturationValue),
        f.highlightValue, f.shadowValue),
      f.sepiaValue)

filterChain(px, f) ==
    sepiaStep(
      highlightShadowStep(
        saturationStep(
          tintStep(
            temperatureStep(
              contrastStep(
                exposureStep([ r |-> px[1], g |-> px[2], b |-> px[3] ], f.exposureValue),
                f.contrastFactor),
              f.temperatureValue),
            f.tintValue),
          f.saturationValue),
        f.highlightValue, f.shadowValue),
      f.sepiaValue)

\* Variant: the loop also writes data[i + 3], as opaque.
filterPixelOpaque(px, f) ==
    LET c == filterChain(px, f)
    IN  << storeChannel(c.r), storeChannel(c.g), storeChannel(c.b), 255 >>

filterPixel(px, f) ==
    LET c == filterChain(px, f)
    IN  << storeChannel(c.r), storeChannel(c.g), storeChannel(c.b), px[4] >>

(***************************************************************************)
(* Bitmaps.  An ImageData, a decoded image and a canvas backing store are  *)
(* records [width, height, data], data the row-major sequence of the       *)
(* width * height pixels.  A bitmap that is transparent black everywhere   *)
(* (a canvas after clearRect or after a resize) is written with the empty  *)
(* sequence, at every size.                                                *)
(***************************************************************************)
Transparent == << 0, 0, 0, 0 >>

blank(w, h) == [ width |-> w, height |-> h, data |-> << >> ]

pixelAt(bmp, x, y) ==
    IF bmp.data = << >> THEN Transparent ELSE bmp.data[y * bmp.width + x + 1]

\* the bitmap of the w * h pixels d, in row-major order
makeBitmap(w, h, d) ==
    [ width |-> w, height |-> h,
      data |-> IF \A i \in 1..(w * h) : d[i] = Transparent THEN << >> ELSE d ]

\* the column and the row of the i-th pixel of a bitmap of width w
columnOf(i, w) == (i - 1) % w
rowOf(i, w) == (i - 1) \div w

inside(bmp, x, y) == x < bmp.width /\ y < bmp.height

\* A canvas keeps its pixels premultiplied: a pixel of alpha 0 holds no colour.
canvasPixel(px) == IF px[4] = 0 THEN Transparent ELSE px

\* Quotient rounded to the nearest integer, for n >= 0 and d > 0.
roundDiv(n, d) == (2 * n + d) \div (2 * d)

\* The default compositing of drawImage, source-over.
sourceOver(src, dst) ==
    IF src[4] = 255 THEN src
    ELSE IF src[4] = 0 THEN dst
    ELSE IF dst[4] = 0 THEN src
    ELSE LET rest == roundDiv(dst[4] * (255 - src[4]), 255)
             a == src[4] + rest
             mix(cs, cd) == roundDiv(cs * src[4] + cd * rest, a)
         IN  << mix(src[1], dst[1]), mix(src[2], dst[2]), mix(src[3], dst[3]), a >>

\* ctx.clearRect(0, 0, canvas.width, canvas.height)
clearRect(canvas) == blank(canvas.width, canvas.height)

\* ctx.drawImage(src, sx, 0, sw, sh, sx, 0, sw, sh): the part of the rectangle
\* that lies in the source is composited at the same place of the canvas.
drawImageRect(canvas, src, sx, sw, sh) ==
    makeBitmap(canvas.width, canvas.height,
               [ i \in 1..(canvas.width * canvas.height) |->
                   LET x == columnOf(i, canvas.width)
                       y == rowOf(i, canvas.width)
                   IN  IF x >= sx /\ x < sx + sw /\ y < sh /\ inside(src, x, y)
                       THEN sourceOver(canvasPixel(pixelAt(src, x, y)), pixelAt(canvas, x, y))
                       ELSE pixelAt(canvas, x, y) ])

\* ctx.drawImage(src, 0, 0)
drawImage(canvas, src) == drawImageRect(canvas, src, 0, src.width, src.height)

\* Variant: the pixels are composited over those of the canvas, as drawImage does.
putImageDataBlended(canvas, imageData) ==
    makeBitmap(canvas.width, canvas.height,
               [ i \in 1..(canvas.width * canvas.height) |->
                   LET x == columnOf(i, canvas.width)
                       y == rowOf(i, canvas.width)
                   IN  IF inside(imageData, x, y)
                       THEN sourceOver(canvasPixel(pixelAt(imageData, x, y)),
                                       pixelAt(canvas, x, y))
                       ELSE pixelAt(canvas, x, y) ])

\* ctx.putImageData(imageData, 0, 0): the pixels replace those of the canvas.
putImageData(canvas, imageData) ==
    makeBitmap(canvas.width, canvas.height,
               [ i \in 1..(canvas.width * canvas.height) |->
                   LET x == columnOf(i, canvas.width)
                       y == rowOf(i, canvas.width)
                   IN  IF inside(imageData, x, y)
                       THEN canvasPixel(pixelAt(imageData, x, y))
                       ELSE pixelAt(canvas, x, y) ])

\* ctx.getImageData(0, 0, w, h) for w, h > 0; outside the canvas it reads
\* transparent black.
getImageData(canvas, w, h) ==
    makeBitmap(w, h,
               [ i \in 1..(w * h) |->
                   IF inside(canvas, columnOf(i, w), rowOf(i, w))
                   THEN pixelAt(canvas, columnOf(i, w), rowOf(i, w))
                   ELSE Transparent ])

(***************************************************************************)
(* The editor's state is a record e; every function of app.js is an        *)
(* operator from the state before its call to the state after it.          *)
(*   uploads            the files selected so far, each with the stage of  *)
(*                      its FileReader and of its Image object             *)
(*   originalImage      0 (null) or the index in uploads of the Image      *)
(*   originalImageData  NULL or the ImageData read at load                 *)
(*   currentViewMode, activeButtons, sliders, theme, storedTheme           *)
(*   debounceTimer      0 (undefined) or the id of the last timer set      *)
(*   timers             the ids of the timers still pending                *)
(*   mainCanvas, canvasBeforeHidden, canvasAfterHidden   the three bitmaps *)
(*   splitLine          the dashed line stroked on mainCanvas, if any      *)
(*   applied            the slider values the pixel loop last ran with, or *)
(*                      NoFilter when canvasAfterHidden was last drawn     *)
(*                      from the image                                     *)
(*   alert, download, error   what the handler run on e shows, saves and   *)
(*                      throws (no state of the page: empty before a run)  *)
(***************************************************************************)
NULL == [ null |-> TRUE ]
NoFilter == [ none |-> TRUE ]
NoFile == [ none |-> TRUE ]

SliderNames ==
    { "exposure", "contrast", "highlights", "shadows",
      "saturation", "temperature", "tint", "sepia" }
ViewModes == { "before", "after", "split" }

isImageType(type) == type \in { "image/png", "image/jpeg", "image/gif" }

\* originalImage.width and .height: 0 until the image is decoded
imageComplete(e) == e.uploads[e.originalImage].stage \in { "complete", "loaded" }
imageBroken(e) == e.uploads[e.originalImage].stage \in { "broken", "failed" }
imageBitmap(e) == e.uploads[e.originalImage].file.bitmap
imageWidth(e) == IF imageComplete(e) THEN imageBitmap(e).width ELSE 0
imageHeight(e) == IF imageComplete(e) THEN imageBitmap(e).height ELSE 0

\* ctx.drawImage(originalImage, 0, 0): an image not yet decoded draws nothing
drawOriginalImage(canvas, e) ==
    IF imageComplete(e) THEN drawImage(canvas, imageBitmap(e)) ELSE canvas

noSession(e) == e.originalImage = 0 \/ e.originalImageData = NULL

\* Variant: the button of the mode is activated, the other two are left as they are.
setViewModeKeepActive(e, mode) ==
    [ e EXCEPT !.currentViewMode = mode,
               !.activeButtons = @ \cup { btn \in ViewModes : btn = mode } ]

setViewMode(e, mode) ==
    [ e EXCEPT !.currentViewMode = mode,
               !.activeButtons = { btn \in ViewModes : btn = mode } ]

resetAllSliders(e) == [ e EXCEPT !.sliders = [ n \in SliderNames |-> 0 ] ]

\* Variant: the state variables are not reset.
resetAllKeepImage(e) ==
    LET cleared == [ e EXCEPT !.mainCanvas = clearRect(@),
                              !.splitLine = << >>,
                              !.canvasBeforeHidden = clearRect(@),
                              !.canvasAfterHidden = clearRect(@) ]
    IN  setViewMode(resetAllSliders(cleared), "after")

resetAll(e) ==
    LET cleared == [ e EXCEPT !.mainCanvas = clearRect(@),
                              !.splitLine = << >>,
                              !.canvasBeforeHidden = clearRect(@),
                              !.canvasAfterHidden = clearRect(@),
                              !.originalImage = 0,
                              !.originalImageData = NULL ]
    IN  setViewMode(resetAllSliders(cleared), "after")

\* Variant: Math.ceil(w / 2)
ceilHalf(w) == (w + 1) \div 2

\* Math.floor(w / 2)
floorHalf(w) == w \div 2

strokeSplitLine(e, halfWidth, h) ==
    LET isDarkMode == e.theme = "dark"
    IN  << [ x |-> halfWidth, y0 |-> 0, y1 |-> h,
             strokeStyle |-> IF isDarkMode THEN "rgba(255, 255, 255, 0.6)"
                                           ELSE "rgba(0, 0, 0, 0.6)",
             lineWidth |-> 1,
             lineDash |-> << 4, 2 >> ] >>

\* Variant: the 'before' mode shows the hidden 'after' canvas.
updateMainCanvasViewAfterOnly(e) ==
    IF noSession(e)
    THEN [ e EXCEPT !.mainCanvas = clearRect(@), !.splitLine = << >> ]
    ELSE
      LET w == e.mainCanvas.width
          h == e.mainCanvas.height
          cleared == clearRect(e.mainCanvas)
          halfWidth == floorHalf(w)
          left == drawImageRect(cleared, e.canvasBeforeHidden, 0, halfWidth, h)
      IN  IF e.currentViewMode = "split"
          THEN [ e EXCEPT !.mainCanvas = drawImageRect(left, e.canvasAfterHidden,
                                                       halfWidth, w - halfWidth, h),
                          !.splitLine = strokeSplitLine(e, halfWidth, h) ]
          ELSE [ e EXCEPT !.mainCanvas = drawImage(cleared, e.canvasAfterHidden),
                          !.splitLine = << >> ]

updateMainCanvasView(e) ==
    IF noSession(e)
    THEN [ e EXCEPT !.mainCanvas = clearRect(@), !.splitLine = << >> ]
    ELSE
      LET w == e.mainCanvas.width
          h == e.mainCanvas.height
          cleared == clearRect(e.mainCanvas)
          halfWidth == floorHalf(w)
          left == drawImageRect(cleared, e.canvasBeforeHidden, 0, halfWidth, h)
      IN  CASE e.currentViewMode = "before" ->
                 [ e EXCEPT !.mainCanvas = putImageData(cleared, e.originalImageData),
                            !.splitLine = << >> ]
            [] e.currentViewMode = "after" ->
                 [ e EXCEPT !.mainCanvas = drawImage(cleared, e.canvasAfterHidden),
                            !.splitLine = << >> ]
            [] e.currentViewMode = "split" ->
                 [ e EXCEPT !.mainCanvas = drawImageRect(left, e.canvasAfterHidden,
                                                         halfWidth, w - halfWidth, h),
                            !.splitLine = strokeSplitLine(e, halfWidth, h) ]
            [] OTHER ->
                 [ e EXCEPT !.mainCanvas = drawImage(cleared, e.canvasAfterHidden),
                            !.splitLine = << >> ]

\* steps 2 to 5 of applyFilters: the copy of the 'before' canvas, the pixel
\* loop over it and the write to the 'after' canvas
filteredImageData(canvas, f) ==
    LET workingImageData == getImageData(canvas, canvas.width, canvas.height)
        w == workingImageData.width
        h == workingImageData.height
    IN  [ width |-> w, height |-> h,
          data |-> [ i \in 1..(w * h) |->
                       filterPixel(pixelAt(workingImageData, columnOf(i, w), rowOf(i, w)), f) ] ]

\* Variant: the pixel loop runs over the copy of the 'after' canvas.
applyFiltersCompounding(e) ==
    IF noSession(e) THEN e
    ELSE IF e.canvasAfterHidden.width = 0 \/ e.canvasAfterHidden.height = 0
    THEN [ e EXCEPT !.error = "IndexSizeError" ]
    ELSE
      LET f == readFilterValues(e.sliders)
          written == [ e EXCEPT
                         !.canvasAfterHidden =
                             putImageData(@, filteredImageData(e.canvasAfterHidden, f)),
                         !.applied = e.sliders ]
      IN  updateMainCanvasView(written)

\* Variant: the run does not refresh the visible canvas.
applyFiltersNoRefresh(e) ==
    IF noSession(e) THEN e
    ELSE IF e.canvasBeforeHidden.width = 0 \/ e.canvasBeforeHidden.height = 0
    THEN [ e EXCEPT !.error = "IndexSizeError" ]
    ELSE
      LET f == readFilterValues(e.sliders)
      IN  [ e EXCEPT !.canvasAfterHidden =
                         putImageData(@, filteredImageData(e.canvasBeforeHidden, f)),
                     !.applied = e.sliders ]

applyFilters(e) ==
    IF noSession(e) THEN e
    ELSE IF e.canvasBeforeHidden.width = 0 \/ e.canvasBeforeHidden.height = 0
    THEN [ e EXCEPT !.error = "IndexSizeError" ]
    ELSE
      LET f == readFilterValues(e.sliders)
          written == [ e EXCEPT
                         !.canvasAfterHidden =
                             putImageData(@, filteredImageData(e.canvasBeforeHidden, f)),
                         !.applied = e.sliders ]
      IN  updateMainCanvasView(written)

\* Variant: Reset All also sets the view mode to 'after'.
handleResetToAfter(e) ==
    IF noSession(e) THEN e
    ELSE IF imageBroken(e)
    THEN [ resetAllSliders(e) EXCEPT !.error = "InvalidStateError" ]
    ELSE
      LET drawn == [ resetAllSliders(e) EXCEPT
                       !.canvasAfterHidden = drawOriginalImage(@, e),
                       !.applied = IF imageComplete(e) THEN NoFilter ELSE @ ]
      IN  updateMainCanvasView(setViewMode(drawn, "after"))

handleReset(e) ==
    IF noSession(e) THEN e
    ELSE IF imageBroken(e)
    THEN [ resetAllSliders(e) EXCEPT !.error = "InvalidStateError" ]
    ELSE
      LET drawn == [ resetAllSliders(e) EXCEPT
                       !.canvasAfterHidden = drawOriginalImage(@, e),
                       !.applied = IF imageComplete(e) THEN NoFilter ELSE @ ]
      IN  updateMainCanvasView(drawn)

\* Variant: the view buttons work without an image.
handleViewChangeUnguarded(e, mode) == updateMainCanvasView(setViewMode(e, mode))

handleViewChange(e, mode) ==
    IF noSession(e) THEN e
    ELSE updateMainCanvasView(setViewMode(e, mode))

\* Variant: the theme is not saved to localStorage.
applyThemeNoSave(e, theme) ==
    LET set == [ e EXCEPT !.theme = theme ]
    IN  IF set.originalImage # 0 /\ set.currentViewMode = "split"
        THEN updateMainCanvasView(set)
        ELSE set

applyTheme(e, theme) ==
    LET set == [ e EXCEPT !.theme = theme, !.storedTheme = theme ]
    IN  IF set.originalImage # 0 /\ set.currentViewMode = "split"
        THEN updateMainCanvasView(set)
        ELSE set

handleThemeToggle(e) ==
    LET currentTheme == e.theme
        newTheme == IF currentTheme = "dark" THEN "light" ELSE "dark"
    IN  applyTheme(e, newTheme)

loadInitialTheme(e) ==
    LET savedTheme == e.storedTheme
        initialTheme == IF savedTheme # "" THEN savedTheme ELSE "light"
    IN  applyTheme(e, initialTheme)

(***************************************************************************)
(* debounce(applyFilters, 150): an input event clears the timer named by   *)
(* debounceTimer and sets a new one.  A timer id is the least id of no     *)
(* pending timer.                                                          *)
(***************************************************************************)
setTimeout(e) ==
    CHOOSE id \in 1..(Cardinality(e.timers) + 1) :
        id \notin e.timers /\ \A other \in 1..(id - 1) : other \in e.timers

clearTimeout(e, id) == [ e EXCEPT !.timers = @ \ { id } ]

\* Variant: an input event sets a timer and leaves the pending one.
debounceNoClear(e) ==
    LET id == setTimeout(e)
    IN  [ e EXCEPT !.timers = @ \cup { id }, !.debounceTimer = id ]

debounce(e) ==
    LET cleared == clearTimeout(e, e.debounceTimer)
        id == setTimeout(cleared)
    IN  [ cleared EXCEPT !.timers = @ \cup { id }, !.debounceTimer = id ]

(***************************************************************************)
(* handleImageUpload and the callbacks it installs.  uploads holds the     *)
(* FileReaders and Image objects that are alive, each in a slot; slot k is *)
(*   "free"      empty                                                     *)
(*   "reading"   its FileReader is reading the file                        *)
(*   "decoding"  reader.onload ran: its Image object exists, src is set    *)
(*   "complete"  the image is decoded, its load event is queued            *)
(*   "broken"    the image failed to decode, its error event is queued     *)
(*   "loaded", "failed"   the load or error event was dispatched           *)
(***************************************************************************)
handleImageUpload(e, file) ==
    IF file = NoFile \/ ~isImageType(file.type)
    THEN [ resetAll(e) EXCEPT !.alert = "Please select a valid image file (e.g., JPG, PNG)." ]
    ELSE LET k == CHOOSE slot \in DOMAIN e.uploads :
                      /\ e.uploads[slot].stage = "free"
                      /\ \A other \in 1..(slot - 1) : e.uploads[other].stage # "free"
         IN  [ e EXCEPT !.uploads[k] = [ file |-> file, stage |-> "reading" ] ]

readerOnload(e, k) ==
    [ e EXCEPT !.uploads[k].stage = "decoding", !.originalImage = k ]

readerOnerror(e, k) ==
    [ resetAll([ e EXCEPT !.uploads[k].stage = "failed" ])
        EXCEPT !.alert = "Error reading the selected file." ]

\* Variant: the load event leaves the view mode as the user set it.
imageOnloadKeepView(e, k) ==
    LET fired == [ e EXCEPT !.uploads[k].stage = "loaded" ]
        w == imageWidth(fired)
        h == imageHeight(fired)
        sized == [ fired EXCEPT !.mainCanvas = blank(w, h),
                                !.splitLine = << >>,
                                !.canvasBeforeHidden = blank(w, h),
                                !.canvasAfterHidden = blank(w, h) ]
        before == [ sized EXCEPT !.canvasBeforeHidden = drawOriginalImage(@, sized) ]
        stored == [ before EXCEPT
                      !.originalImageData = getImageData(before.canvasBeforeHidden, w, h) ]
        after == [ stored EXCEPT !.canvasAfterHidden = drawOriginalImage(@, stored),
                                 !.applied = NoFilter ]
    IN  IF fired.originalImage = 0
        THEN [ fired EXCEPT !.error = "TypeError" ]
        ELSE IF imageBroken(fired)
        THEN [ sized EXCEPT !.error = "InvalidStateError" ]
        ELSE IF w = 0 \/ h = 0
        THEN [ resetAll(before) EXCEPT
                 !.alert = "Could not process the image, it might be from a different origin or corrupted." ]
        ELSE updateMainCanvasView(resetAllSliders(after))

\* Variant: the load event leaves the sliders where they are.
imageOnloadKeepSliders(e, k) ==
    LET fired == [ e EXCEPT !.uploads[k].stage = "loaded" ]
        w == imageWidth(fired)
        h == imageHeight(fired)
        sized == [ fired EXCEPT !.mainCanvas = blank(w, h),
                                !.splitLine = << >>,
                                !.canvasBeforeHidden = blank(w, h),
                                !.canvasAfterHidden = blank(w, h) ]
        before == [ sized EXCEPT !.canvasBeforeHidden = drawOriginalImage(@, sized) ]
        stored == [ before EXCEPT
                      !.originalImageData = getImageData(before.canvasBeforeHidden, w, h) ]
        after == [ stored EXCEPT !.canvasAfterHidden = drawOriginalImage(@, stored),
                                 !.applied = NoFilter ]
    IN  IF fired.originalImage = 0
        THEN [ fired EXCEPT !.error = "TypeError" ]
        ELSE IF imageBroken(fired)
        THEN [ sized EXCEPT !.error = "InvalidStateError" ]
        ELSE IF w = 0 \/ h = 0
        THEN [ resetAll(before) EXCEPT
                 !.alert = "Could not process the image, it might be from a different origin or corrupted." ]
        ELSE updateMainCanvasView(setViewMode(after, "after"))

\* originalImage.onload: every use of originalImage reads the variable, not
\* the Image object the handler was installed on
imageOnload(e, k) ==
    LET fired == [ e EXCEPT !.uploads[k].stage = "loaded" ]
        w == imageWidth(fired)
        h == imageHeight(fired)
        sized == [ fired EXCEPT !.mainCanvas = blank(w, h),
                                !.splitLine = << >>,
                                !.canvasBeforeHidden = blank(w, h),
                                !.canvasAfterHidden = blank(w, h) ]
        before == [ sized EXCEPT !.canvasBeforeHidden = drawOriginalImage(@, sized) ]
        stored == [ before EXCEPT
                      !.originalImageData = getImageData(before.canvasBeforeHidden, w, h) ]
        after == [ stored EXCEPT !.canvasAfterHidden = drawOriginalImage(@, stored),
                                 !.applied = NoFilter ]
    IN  IF fired.originalImage = 0
        THEN [ fired EXCEPT !.error = "TypeError" ]
        ELSE IF imageBroken(fired)
        THEN [ sized EXCEPT !.error = "InvalidStateError" ]
        ELSE IF w = 0 \/ h = 0
        THEN [ resetAll(before) EXCEPT
                 !.alert = "Could not process the image, it might be from a different origin or corrupted." ]
        ELSE updateMainCanvasView(setViewMode(resetAllSliders(after), "after"))

imageOnerror(e, k) ==
    [ resetAll([ e EXCEPT !.uploads[k].stage = "failed" ])
        EXCEPT !.alert = "Error loading the image data. The file might be corrupt or in an unsupported format." ]

(***************************************************************************)
(* handleExport.  toBlob encodes the bitmap canvasAfterHidden holds at the *)
(* call; blob is whether the encoder returned one.  quality 0.92 is held   *)
(* in hundredths.                                                          *)
(***************************************************************************)
ExportQuality == 92

\* Variant: the visible canvas is encoded.
handleExportShown(e, selected, blob) ==
    IF e.originalImage = 0 \/ e.canvasAfterHidden.width = 0
    THEN [ e EXCEPT !.alert = "Please load and optionally edit an image before exporting." ]
    ELSE
      LET format == IF selected # "" THEN selected ELSE "image/png"
          quality == ExportQuality
          filename == IF format = "image/jpeg" THEN "edited_image.jpg"
                                               ELSE "edited_image.png"
      IN  IF blob
          THEN [ e EXCEPT !.download = << [ image |-> e.mainCanvas,
                                            format |-> format,
                                            quality |-> quality,
                                            filename |-> filename ] >> ]
          ELSE [ e EXCEPT !.alert = "Sorry, there was an error creating the image file for export. The canvas might be empty or too large." ]

handleExport(e, selected, blob) ==
    IF e.originalImage = 0 \/ e.canvasAfterHidden.width = 0
    THEN [ e EXCEPT !.alert = "Please load and optionally edit an image before exporting." ]
    ELSE
      LET format == IF selected # "" THEN selected ELSE "image/png"
          quality == ExportQuality
          filename == IF format = "image/jpeg" THEN "edited_image.jpg"
                                               ELSE "edited_image.png"
      IN  IF blob
          THEN [ e EXCEPT !.download = << [ image |-> e.canvasAfterHidden,
                                            format |-> format,
                                            quality |-> quality,
                                            filename |-> filename ] >> ]
          ELSE [ e EXCEPT !.alert = "Sorry, there was an error creating the image file for export. The canvas might be empty or too large." ]

(***************************************************************************)
(* The state of the page.                                                  *)
(***************************************************************************)
VARIABLES uploads, originalImage, originalImageData, currentViewMode,
          activeButtons, sliders, theme, storedTheme, debounceTimer, timers,
          mainCanvas, splitLine, canvasBeforeHidden, canvasAfterHidden,
          applied

vars == << uploads, originalImage, originalImageData, currentViewMode,
           activeButtons, sliders, theme, storedTheme, debounceTimer, timers,
           mainCanvas, splitLine, canvasBeforeHidden, canvasAfterHidden,
           applied >>

\* The state as a record.  alert, download and error are what the handler run
\* on it shows, saves and throws: they are results of the run, not state.
state ==
    [ uploads |-> uploads, originalImage |-> originalImage,
      originalImageData |-> originalImageData,
      currentViewMode |-> currentViewMode, activeButtons |-> activeButtons,
      sliders |-> sliders, theme |-> theme, storedTheme |-> storedTheme,
      debounceTimer |-> debounceTimer, timers |-> timers,
      mainCanvas |-> mainCanvas, splitLine |-> splitLine,
      canvasBeforeHidden |-> canvasBeforeHidden,
      canvasAfterHidden |-> canvasAfterHidden, applied |-> applied,
      alert |-> "", download |-> << >>, error |-> "" ]

is(e) ==
    /\ uploads = e.uploads
    /\ originalImage = e.originalImage
    /\ originalImageData = e.originalImageData
    /\ currentViewMode = e.currentViewMode
    /\ activeButtons = e.activeButtons
    /\ sliders = e.sliders
    /\ theme = e.theme
    /\ storedTheme = e.storedTheme
    /\ debounceTimer = e.debounceTimer
    /\ timers = e.timers
    /\ mainCanvas = e.mainCanvas
    /\ splitLine = e.splitLine
    /\ canvasBeforeHidden = e.canvasBeforeHidden
    /\ canvasAfterHidden = e.canvasAfterHidden
    /\ applied = e.applied

\* A FileReader or an Image object whose events are all dispatched and that
\* originalImage does not name is unreachable.  The objects alive are kept in
\* the lowest slots, in their order.
freeSlot == [ file |-> NoFile, stage |-> "free" ]

alive(e) ==
    { k \in DOMAIN e.uploads :
        \/ e.uploads[k].stage \in { "reading", "decoding", "complete", "broken" }
        \/ e.uploads[k].stage # "free" /\ e.originalImage = k }

slotOf(e, k) == Cardinality({ j \in alive(e) : j <= k })

collected(e) ==
    [ e EXCEPT
        !.uploads = [ i \in DOMAIN e.uploads |->
                        IF \E k \in alive(e) : slotOf(e, k) = i
                        THEN e.uploads[CHOOSE k \in alive(e) : slotOf(e, k) = i]
                        ELSE freeSlot ],
        !.originalImage = IF @ = 0 THEN 0 ELSE slotOf(e, @) ]

\* the run of a handler that ends in e
becomes(e) ==
    \E r \in { collected(e) } :
        /\ uploads' = r.uploads
        /\ originalImage' = r.originalImage
        /\ originalImageData' = r.originalImageData
        /\ currentViewMode' = r.currentViewMode
        /\ activeButtons' = r.activeButtons
        /\ sliders' = r.sliders
        /\ theme' = r.theme
        /\ storedTheme' = r.storedTheme
        /\ debounceTimer' = r.debounceTimer
        /\ timers' = r.timers
        /\ mainCanvas' = r.mainCanvas
        /\ splitLine' = r.splitLine
        /\ canvasBeforeHidden' = r.canvasBeforeHidden
        /\ canvasAfterHidden' = r.canvasAfterHidden
        /\ applied' = r.applied

(***************************************************************************)
(* The page as index.html declares it, before the script runs: three       *)
(* canvases of the default size without content, the sliders at 0, the     *)
(* 'after' button active, the theme attribute "light".  saved is the theme *)
(* a former visit left in localStorage, "" when there is none.             *)
(***************************************************************************)
\* the most files being read or decoded at one time
MaxPending == 1

pending(stage) == stage \in { "reading", "decoding", "complete", "broken" }

DefaultCanvasWidth == 300
DefaultCanvasHeight == 150

pageAsParsed(saved) ==
    [ uploads |-> [ k \in 1..(MaxPending + 1) |-> freeSlot ], originalImage |-> 0, originalImageData |-> NULL,
      currentViewMode |-> "after", activeButtons |-> { "after" },
      sliders |-> [ n \in SliderNames |-> 0 ],
      theme |-> "light", storedTheme |-> saved,
      debounceTimer |-> 0, timers |-> { },
      mainCanvas |-> blank(DefaultCanvasWidth, DefaultCanvasHeight),
      splitLine |-> << >>,
      canvasBeforeHidden |-> blank(DefaultCanvasWidth, DefaultCanvasHeight),
      canvasAfterHidden |-> blank(DefaultCanvasWidth, DefaultCanvasHeight),
      applied |-> NoFilter, alert |-> "", download |-> << >>, error |-> "" ]

\* the DOMContentLoaded callback: the listeners are attached, then
\* loadInitialTheme() runs
pageLoaded(saved) == loadInitialTheme(pageAsParsed(saved))

(***************************************************************************)
(* The inputs of the model: the files the user may select, the images they *)
(* decode to, and the slider moves.                                        *)
(***************************************************************************)
ImageA ==
    [ width |-> 2, height |-> 1,
      data |-> << << 200, 100, 50, 255 >>, << 10, 240, 130, 128 >> >> ]
ImageB ==
    [ width |-> 3, height |-> 2,
      data |-> << << 255, 0, 0, 255 >>, << 128, 128, 128, 255 >>, << 0, 0, 0, 0 >>,
                  << 30, 60, 90, 255 >>, << 250, 250, 250, 200 >>, << 0, 255, 255, 255 >> >> ]

imageFile(type, bitmap) ==
    [ type |-> type, readable |-> TRUE, decodable |-> TRUE, bitmap |-> bitmap ]

Files ==
    { imageFile("image/png", ImageA),
      imageFile("image/jpeg", ImageB),
      imageFile("text/plain", ImageA),
      [ imageFile("image/png", ImageA) EXCEPT !.readable = FALSE ],
      [ imageFile("image/gif", ImageA) EXCEPT !.decodable = FALSE ] }

SliderMoves == { << "exposure", 100 >>, << "exposure", -100 >> }

SavedThemes == { "", "light", "dark" }
ExportFormats == { "image/png", "image/jpeg" }

(***************************************************************************)
(* The events.  Each action is one run of a handler on the state.          *)
(***************************************************************************)
Init == \E saved \in SavedThemes : is(pageLoaded(saved))

UploadChange ==
    /\ Cardinality({ k \in DOMAIN uploads : pending(uploads[k].stage) }) < MaxPending
    /\ \E file \in Files \cup { NoFile } : becomes(handleImageUpload(state, file))

ReaderLoad ==
    \E k \in 1..Len(uploads) :
        /\ uploads[k].stage = "reading"
        /\ uploads[k].file.readable
        /\ becomes(readerOnload(state, k))

ReaderError ==
    \E k \in 1..Len(uploads) :
        /\ uploads[k].stage = "reading"
        /\ ~uploads[k].file.readable
        /\ becomes(readerOnerror(state, k))

\* the browser finishes decoding the image and queues its load or error event
ImageDecode ==
    \E k \in 1..Len(uploads) :
        /\ uploads[k].stage = "decoding"
        /\ becomes([ state EXCEPT !.uploads[k].stage =
                       IF uploads[k].file.decodable THEN "complete" ELSE "broken" ])

ImageLoad ==
    \E k \in 1..Len(uploads) :
        /\ uploads[k].stage = "complete"
        /\ becomes(imageOnload(state, k))

ImageError ==
    \E k \in 1..Len(uploads) :
        /\ uploads[k].stage = "broken"
        /\ becomes(imageOnerror(state, k))

\* the user moves a slider: the input event runs the debounced applyFilters
SliderInput ==
    \E move \in SliderMoves :
        \E moved \in { [ state EXCEPT !.sliders[move[1]] = move[2] ] } :
            becomes(debounce(moved))

\* a pending timer expires and calls applyFilters
TimerFire ==
    \E id \in timers : becomes(applyFilters(clearTimeout(state, id)))

ResetClick == \E clicked \in { state } : becomes(handleReset(clicked))

ViewClick ==
    \E mode \in ViewModes :
        \E clicked \in { state } : becomes(handleViewChange(clicked, mode))

ThemeClick == \E clicked \in { state } : becomes(handleThemeToggle(clicked))

ExportClick ==
    \E selected \in ExportFormats, blob \in BOOLEAN :
        \E clicked \in { state } : becomes(handleExport(clicked, selected, blob))

Next ==
    \/ UploadChange
    \/ ReaderLoad
    \/ ReaderError
    \/ ImageDecode
    \/ ImageLoad
    \/ ImageError
    \/ SliderInput
    \/ TimerFire
    \/ ResetClick
    \/ ViewClick
    \/ ThemeClick
    \/ ExportClick

Spec == Init /\ [][Next]_vars

(***************************************************************************)
(* The filter pipeline on its own: an image is loaded, the sliders are     *)
(* dragged to a setting, and the debounced applyFilters runs.              *)
(***************************************************************************)
\* the page after file was selected, read, decoded, and its load event ran
loadedWith(file) ==
    LET selected == handleImageUpload(pageLoaded(""), file)
        read == readerOnload(selected, 1)
        decoded == [ read EXCEPT !.uploads[1].stage = "complete" ]
    IN  collected(imageOnload(decoded, 1))

\* input events on the sliders in one burst, each replacing the pending timer
draggedTo(e, setting) == debounce([ e EXCEPT !.sliders = setting ])

FilterImages == { imageFile("image/png", ImageA), imageFile("image/jpeg", ImageB) }

FilterSettings ==
    [ exposure : { -100, 0, 50, 100 }, contrast : { -100, -50, 0, 100 },
      highlights : { -100, 0, 100 }, shadows : { -100, 0, 100 },
      saturation : { -100, 0, 100 }, temperature : { -100, 0, 100 },
      tint : { -100, 0, 100 }, sepia : { 0, 50, 100 } ]

FilterInit ==
    \E file \in FilterImages, setting \in FilterSettings :
        is(draggedTo(loadedWith(file), setting))

FilterNext == TimerFire

FilterSpec == FilterInit /\ [][FilterNext]_vars

(***************************************************************************)
(* The view compositor on frames wide enough to tell the halves of the     *)
(* split view apart: an image of one of these is loaded, then the sliders, *)
(* the reset button, the view buttons and the theme switch are used.       *)
(***************************************************************************)
gradient(w, h) ==
    [ width |-> w, height |-> h,
      data |-> [ i \in 1..(w * h) |->
                   << (2 * ((i - 1) % w)) % 256, 255 - ((i - 1) % w), (5 * (i - 1)) % 256,
                      IF i % 7 = 0 THEN 128 ELSE 255 >> ] ]

ViewImages ==
    { imageFile("image/png", gradient(1, 1)), imageFile("image/png", gradient(5, 2)),
      imageFile("image/png", gradient(100, 1)), imageFile("image/png", gradient(101, 1)) }

ViewInit == \E file \in ViewImages : is(loadedWith(file))

ViewNext ==
    \/ SliderInput
    \/ TimerFire
    \/ ResetClick
    \/ ViewClick
    \/ ThemeClick

ViewSpec == ViewInit /\ [][ViewNext]_vars

(***************************************************************************)
(* A session with the timers of the browser: an image is loaded, and a     *)
(* timer that stays pending expires and its callback runs.                 *)
(***************************************************************************)
LiveInit == \E file \in FilterImages : is(loadedWith(file))

\* The timers of the browser (app.js 60-63): a pending timer expires and its
\* callback runs, unless an input event replaces it first (clearTimeout, then
\* setTimeout with a new delay).  This is weak fairness of TimerFire with its
\* enabling condition, a timer is pending, written out, and weakened by the
\* behaviours in which input events replace the timer for ever.
TimerFairness ==
    \/ []<>(timers = { })
    \/ []<><<TimerFire>>_vars
    \/ []<><<SliderInput>>_vars

LiveSpec == LiveInit /\ [][ViewNext]_vars /\ TimerFairness

(***************************************************************************)
(* Overlapping uploads: a file is being read, and the user may select      *)
(* another one while a slot is free, so that the callbacks of two          *)
(* FileReaders and two Image objects interleave.  Both files are readable  *)
(* and decodable.                                                          *)
(***************************************************************************)
OverlapInit ==
    \E file \in FilterImages : is(collected(handleImageUpload(pageLoaded(""), file)))

OverlapUpload ==
    /\ \E slot \in DOMAIN uploads : uploads[slot].stage = "free"
    /\ \E file \in FilterImages : becomes(handleImageUpload(state, file))

OverlapNext ==
    \/ OverlapUpload
    \/ ReaderLoad
    \/ ImageDecode
    \/ ImageLoad
    \/ ViewClick
    \/ ThemeClick

OverlapSpec == OverlapInit /\ [][OverlapNext]_vars

(***************************************************************************)
(* The tone filters on their own: an image with a black, a white, a gray   *)
(* and coloured pixels is loaded, the exposure, saturation, highlights and *)
(* shadows sliders are dragged to a setting, and the debounced             *)
(* applyFilters runs.                                                      *)
(***************************************************************************)
ToneImage ==
    [ width |-> 3, height |-> 2,
      data |-> << << 0, 0, 0, 255 >>, << 255, 255, 255, 255 >>, << 128, 128, 128, 255 >>,
                  << 200, 100, 50, 255 >>, << 10, 240, 130, 128 >>, << 0, 0, 255, 255 >> >> ]

ToneSettings ==
    [ exposure : { -100, 0, 100 }, contrast : { 0 },
      highlights : { -100, -50, 0, 50, 100 }, shadows : { -100, -50, 0, 50, 100 },
      saturation : { -100, 0, 100 }, temperature : { 0 },
      tint : { 0 }, sepia : { 0 } ]

ToneInit ==
    \E setting \in ToneSettings :
        is(draggedTo(loadedWith(imageFile("image/png", ToneImage)), setting))

ToneNext == TimerFire

ToneSpec == ToneInit /\ [][ToneNext]_vars

(***************************************************************************)
(* Overlapping uploads on a loaded image, one of a file that decodes and   *)
(* one of a file that does not: the load event of the first may be         *)
(* dispatched when originalImage names the second, already broken, whose   *)
(* error event is still queued.                                            *)
(***************************************************************************)
CorruptFiles ==
    { imageFile("image/jpeg", ImageB),
      [ imageFile("image/gif", ImageA) EXCEPT !.decodable = FALSE ] }

CorruptInit == is(loadedWith(imageFile("image/png", ImageA)))

CorruptUpload ==
    /\ \E slot \in DOMAIN uploads : uploads[slot].stage = "free"
    /\ \E file \in CorruptFiles : becomes(handleImageUpload(state, file))

CorruptNext ==
    \/ CorruptUpload
    \/ ReaderLoad
    \/ ImageDecode
    \/ ImageLoad
    \/ ImageError
    \/ ViewClick

CorruptSpec == CorruptInit /\ [][CorruptNext]_vars

(***************************************************************************)
(* Properties of the filter pipeline and of the view compositor.           *)
(***************************************************************************)
\* an image and its data are held, and the frame has the size of the data
sessionShown ==
    /\ ~noSession(state)
    /\ mainCanvas.width = originalImageData.width
    /\ mainCanvas.height = originalImageData.height

\* the image originalImage names has had its load event
sessionLoaded == ~noSession(state) /\ uploads[originalImage].stage = "loaded"

\* the pixel loop has run since the 'after' canvas was last drawn from the image
filtersRan == applied # NoFilter

\* the places of the pixels of the original buffer, the pixel of the original
\* buffer and the pixel of the 'after' canvas at a place
places == (0..(originalImageData.width - 1)) \X (0..(originalImageData.height - 1))
originalAt(p) == pixelAt(originalImageData, p[1], p[2])
filteredAt(p) == pixelAt(canvasAfterHidden, p[1], p[2])

\* the 'after' canvas has the size of the original buffer
sameSize ==
    /\ canvasAfterHidden.width = originalImageData.width
    /\ canvasAfterHidden.height = originalImageData.height

\* the triple of pixel px after the first n of the seven steps, taken in the
\* order exposure, contrast, temperature, tint, saturation,
\* highlights/shadows, sepia with the slider values s, nothing clamped
afterStep(n, px, s) ==
    LET f  == readFilterValues(s)
        c0 == [ r |-> px[1], g |-> px[2], b |-> px[3] ]
        c1 == exposureStep(c0, f.exposureValue)
        c2 == contrastStep(c1, f.contrastFactor)
        c3 == temperatureStep(c2, f.temperatureValue)
        c4 == tintStep(c3, f.tintValue)
        c5 == saturationStep(c4, f.saturationValue)
        c6 == highlightShadowStep(c5, f.highlightValue, f.shadowValue)
        c7 == sepiaStep(c6, f.sepiaValue)
    IN  CASE n = 1 -> c1 [] n = 2 -> c2 [] n = 3 -> c3 [] n = 4 -> c4
          [] n = 5 -> c5 [] n = 6 -> c6 [] n = 7 -> c7

\* a triple at FinalScale stored as a pixel of alpha a: each channel clamped
\* once to [0, 255] and rounded to the 8-bit integer
storedPixel(c, a) == << storeChannel(c.r), storeChannel(c.g), storeChannel(c.b), a >>

\* C1: after applyFilters has run, every pixel of the 'after' canvas holds the
\* value got from the original pixel by exposure, contrast, temperature, tint,
\* saturation, highlights/shadows and sepia in this order with no clamp in
\* between, clamped once to [0, 255] and rounded at the end (as a canvas
\* stores it: a pixel of alpha 0 holds no colour).
PipelineOrder ==
    filtersRan =>
        /\ sameSize
        /\ \A p \in places :
               filteredAt(p) = canvasPixel(storedPixel(afterStep(7, originalAt(p), applied),
                                                       originalAt(p)[4]))

\* exposure 100 lifts the red 200 of the first pixel of ImageA to 300 and
\* contrast -50 (factor 0.25) pulls it back to 0.25 * 172 + 128 = 171; clamped
\* after the exposure step it would be 0.25 * 127 + 128 = 159.75
PipelineOrderWitness ==
    /\ filtersRan
    /\ applied = [ n \in SliderNames |->
                     IF n = "exposure" THEN 100 ELSE IF n = "contrast" THEN -50 ELSE 0 ]
    /\ pixelAt(originalImageData, 0, 0) = << 200, 100, 50, 255 >>
    /\ pixelAt(canvasAfterHidden, 0, 0) = << 171, 146, 134, 255 >>

\* C2: after applyFilters has run with all eight sliders at 0, the 'after'
\* canvas equals the original buffer at every pixel and channel.
IdentityLaw ==
    (filtersRan /\ applied = [ n \in SliderNames |-> 0 ]) =>
        sameSize /\ \A p \in places : filteredAt(p) = originalAt(p)

IdentityLawWitness ==
    /\ filtersRan
    /\ applied = [ n \in SliderNames |-> 0 ]
    /\ timers = { }
    /\ \E p \in places :
           filteredAt(p) = << 10, 240, 130, 128 >> /\ originalAt(p) = filteredAt(p)

\* C3: after applyFilters has run, with any slider values, the alpha of every
\* pixel of the 'after' canvas is the alpha of the original pixel.
AlphaPreserved ==
    filtersRan =>
        sameSize /\ \A p \in places : filteredAt(p)[4] = originalAt(p)[4]

AlphaPreservedWitness ==
    /\ filtersRan
    /\ \E p \in places :
           /\ originalAt(p)[4] = 128
           /\ filteredAt(p)[4] = 128
           /\ \A ch \in 1..3 : filteredAt(p)[ch] # originalAt(p)[ch]

\* C4: after applyFilters has run, with any slider values up to all the
\* extremes at once, every R, G and B of the 'after' canvas is an integer in
\* [0, 255].
RangeClamp ==
    filtersRan =>
        sameSize /\ \A p \in places : \A ch \in 1..3 : filteredAt(p)[ch] \in 0..255

\* every slider at its maximum: a channel leaves the pipeline above 255 and
\* is stored as 255
RangeClampWitness ==
    /\ filtersRan
    /\ applied = [ n \in SliderNames |-> 100 ]
    /\ \E p \in places :
           /\ BLess(MaxChannel, afterStep(7, originalAt(p), applied).r)
           /\ filteredAt(p)[1] = 255

\* the 'after' canvas applyFilters leaves for the original buffer and the
\* slider values s
filteredOf(original, s) ==
    makeBitmap(original.width, original.height,
               [ i \in 1..(original.width * original.height) |->
                   canvasPixel(filterPixel(pixelAt(original, columnOf(i, original.width),
                                                   rowOf(i, original.width)),
                                           readFilterValues(s))) ])

\* C5: a run of applyFilters changes neither the hidden 'before' canvas nor
\* originalImageData, and whatever slider changes, runs, resets and view
\* changes a loaded image has seen, the 'after' canvas a run leaves is the one
\* the same slider values give on the image freshly loaded.
NonCompounding ==
    /\ applyFilters(state).canvasBeforeHidden = canvasBeforeHidden
    /\ applyFilters(state).originalImageData = originalImageData
    /\ (sessionLoaded /\ filtersRan) =>
           LET fresh == loadedWith(uploads[originalImage].file)
           IN  /\ canvasBeforeHidden = fresh.canvasBeforeHidden
               /\ originalImageData = fresh.originalImageData
               /\ canvasAfterHidden
                      = applyFilters([ fresh EXCEPT !.sliders = applied ]).canvasAfterHidden

\* a run with exposure -100 is due on an image whose 'after' canvas a run with
\* exposure 100 has filled: what it leaves is not that canvas filtered again
NonCompoundingWitness ==
    /\ sessionLoaded
    /\ filtersRan
    /\ applied.exposure = 100
    /\ sliders.exposure = -100
    /\ timers # { }
    /\ canvasAfterHidden # canvasBeforeHidden
    /\ applyFilters(state).canvasAfterHidden # filteredOf(canvasAfterHidden, sliders)

\* C6: the 'after' canvas a run of applyFilters leaves is a function of the
\* original buffer and of the slider values alone: in every state of a
\* session, whatever the view mode, the theme and the content of the 'after'
\* canvas are, a run leaves the same bytes.
Determinism ==
    sessionShown =>
        applyFilters(state).canvasAfterHidden = filteredOf(canvasBeforeHidden, sliders)

\* a run is due in split view, dark theme, on an 'after' canvas a former run
\* with other slider values has filled
DeterminismWitness ==
    /\ sessionShown
    /\ timers # { }
    /\ currentViewMode = "split"
    /\ theme = "dark"
    /\ filtersRan
    /\ applied # sliders
    /\ canvasAfterHidden # canvasBeforeHidden
    /\ applyFilters(state).canvasAfterHidden # canvasAfterHidden

\* C7: in split mode the frame on the main canvas (under the dashed line)
\* holds, on a canvas of width W, the original in the columns x < floor(W/2),
\* that is 2 (x + 1) <= W, and the filtered buffer in the other columns.
SplitBoundary ==
    (sessionShown /\ currentViewMode = "split") =>
        /\ mainCanvas.width = canvasBeforeHidden.width
        /\ mainCanvas.height = canvasBeforeHidden.height
        /\ canvasAfterHidden.width = mainCanvas.width
        /\ \A x \in 0..(mainCanvas.width - 1), y \in 0..(mainCanvas.height - 1) :
               pixelAt(mainCanvas, x, y) =
                   IF 2 * (x + 1) <= mainCanvas.width
                   THEN pixelAt(originalImageData, x, y)
                   ELSE pixelAt(canvasAfterHidden, x, y)

\* W = 101: columns 0..49 show the original, columns 50..100 the filtered
\* buffer, which differs from the original in every column
SplitBoundaryWitness ==
    /\ sessionShown
    /\ currentViewMode = "split"
    /\ mainCanvas.width = 101
    /\ \A x \in 0..100 :
           pixelAt(canvasAfterHidden, x, 0) # pixelAt(originalImageData, x, 0)
    /\ \A x \in 0..49 : pixelAt(mainCanvas, x, 0) = pixelAt(originalImageData, x, 0)
    /\ \A x \in 50..100 : pixelAt(mainCanvas, x, 0) = pixelAt(canvasAfterHidden, x, 0)

\* C8: with an image loaded, the main canvas holds exactly the original buffer
\* in mode 'before' and exactly the 'after' canvas in mode 'after'.
WholeFrame ==
    sessionShown =>
        /\ currentViewMode = "before" => mainCanvas = originalImageData
        /\ currentViewMode = "after" => mainCanvas = canvasAfterHidden

\* mode 'before' while the filtered buffer differs from the original
WholeFrameWitness ==
    /\ sessionShown
    /\ currentViewMode = "before"
    /\ filtersRan
    /\ canvasAfterHidden # canvasBeforeHidden
    /\ mainCanvas = originalImageData
    /\ mainCanvas.data # << >>

\* gray of the saturation step, taken to FinalScale, clamped and rounded
lumaStored(px, s) ==
    LET gray == BMul(BMul(BMul(luma(afterStep(4, px, s)), 10^4), 10^4), 30)
    IN  storeChannel(gray)

\* the gray pixel of that value with the alpha of px, as a canvas stores it
grayPixel(px, s) ==
    canvasPixel(<< lumaStored(px, s), lumaStored(px, s), lumaStored(px, s), px[4] >>)

\* C9, as amended: after a run with saturation = -100 and sepia = 0 every pixel
\* has R = G = B, and if highlights and shadows are 0 as well that value is
\* the luma of the triple that enters the saturation step, clamped to
\* [0, 255] and rounded.
GrayAtNoSaturation ==
    (filtersRan /\ applied.saturation = -100 /\ applied.sepia = 0) =>
        /\ sameSize
        /\ \A p \in places :
               /\ filteredAt(p)[1] = filteredAt(p)[2]
               /\ filteredAt(p)[2] = filteredAt(p)[3]
               /\ (applied.highlights = 0 /\ applied.shadows = 0) =>
                      filteredAt(p) = grayPixel(originalAt(p), applied)

\* (200, 100, 50) has luma 59.8 + 58.7 + 5.7 = 124.2
GrayAtNoSaturationWitness ==
    /\ filtersRan
    /\ applied = [ n \in SliderNames |-> IF n = "saturation" THEN -100 ELSE 0 ]
    /\ pixelAt(originalImageData, 0, 0) = << 200, 100, 50, 255 >>
    /\ pixelAt(canvasAfterHidden, 0, 0) = << 124, 124, 124, 255 >>

\* C9, as stated: after a run with saturation = -100 every pixel has
\* R = G = B = round(luma), whatever the other sliders are.
GrayAtNoSaturationAlways ==
    (filtersRan /\ applied.saturation = -100) =>
        sameSize /\ \A p \in places : filteredAt(p) = grayPixel(originalAt(p), applied)

\* a triple taken to the scale k times finer
scaled(t, k) == [ r |-> BMul(t.r, k), g |-> BMul(t.g, k), b |-> BMul(t.b, k) ]

\* C10: after a run with sepia = 100 every pixel holds the sepia-matrix
\* transform of the triple that enters the sepia step, clamped and rounded,
\* and after a run with sepia = 0 it holds that triple itself, clamped and
\* rounded.
SepiaFullBlend ==
    filtersRan =>
        /\ sameSize
        /\ \A p \in places :
               LET c == afterStep(6, originalAt(p), applied)
               IN  /\ applied.sepia = 100 =>
                          filteredAt(p) = canvasPixel(storedPixel(
                                              scaled(sepiaMatrix(c), PercentScale),
                                              originalAt(p)[4]))
                   /\ applied.sepia = 0 =>
                          filteredAt(p) = canvasPixel(storedPixel(
                                              scaled(scaled(c, GrayWeightScale), PercentScale),
                                              originalAt(p)[4]))

\* (200, 100, 50) at sepia 100: 78.6 + 76.9 + 9.45 = 164.95,
\* 69.8 + 68.6 + 8.4 = 146.8, 54.4 + 53.4 + 6.55 = 114.35
SepiaFullBlendWitness ==
    /\ filtersRan
    /\ applied = [ n \in SliderNames |-> IF n = "sepia" THEN 100 ELSE 0 ]
    /\ pixelAt(originalImageData, 0, 0) = << 200, 100, 50, 255 >>
    /\ pixelAt(canvasAfterHidden, 0, 0) = << 165, 147, 114, 255 >>

(***************************************************************************)
(* The single filters, each stated in integers of its own: n / d is the    *)
(* value a channel leaves the loop with.                                   *)
(***************************************************************************)
\* n / d rounded to the nearest integer, a tie to the even one (d > 0)
roundHalfEven(n, d) ==
    LET q == n \div d
        r == n % d
    IN  IF 2 * r > d THEN q + 1
        ELSE IF 2 * r = d /\ q % 2 = 1 THEN q + 1
        ELSE q

\* n / d clamped to [0, 255], then rounded
storedAt(n, d) ==
    IF n < 0 THEN 0 ELSE IF n > 255 * d THEN 255 ELSE roundHalfEven(n, d)

\* the last run had every slider but the named one at 0
onlySlider(name) == \A n \in SliderNames \ { name } : applied[n] = 0

\* C11: after a run with every slider but contrast at 0 and contrast at v,
\* every channel c of every pixel is clamp(((v + 100) / 100)^2 * (c - 128) + 128,
\* 0, 255), rounded as the 8-bit store rounds; alpha is kept.
ContrastLaw ==
    (filtersRan /\ onlySlider("contrast")) =>
        /\ sameSize
        /\ \A p \in places :
               LET v == applied.contrast
                   contrastOf(c) ==
                       storedAt((v + 100) * (v + 100) * (c - 128) + 128 * 10000, 10000)
               IN  filteredAt(p) = canvasPixel(<< contrastOf(originalAt(p)[1]),
                                                  contrastOf(originalAt(p)[2]),
                                                  contrastOf(originalAt(p)[3]),
                                                  originalAt(p)[4] >>)

\* the red pixel at contrast 100 (factor 4): 4 * 127 + 128 = 636 and
\* 4 * (-128) + 128 = -384 are clamped to 255 and 0; (30, 60, 90) goes to 0
ContrastLawWitness ==
    /\ filtersRan
    /\ applied = [ n \in SliderNames |-> IF n = "contrast" THEN 100 ELSE 0 ]
    /\ pixelAt(originalImageData, 0, 0) = << 255, 0, 0, 255 >>
    /\ pixelAt(canvasAfterHidden, 0, 0) = << 255, 0, 0, 255 >>
    /\ pixelAt(originalImageData, 0, 1) = << 30, 60, 90, 255 >>
    /\ pixelAt(canvasAfterHidden, 0, 1) = << 0, 0, 0, 255 >>

\* C12: after a run with every slider but exposure at 0 and exposure at e,
\* every channel c of every pixel is clamp(c + e, 0, 255); alpha is kept.
ExposureLaw ==
    (filtersRan /\ onlySlider("exposure")) =>
        /\ sameSize
        /\ \A p \in places :
               LET exposureOf(c) == storedAt(c + applied.exposure, 1)
               IN  filteredAt(p) = canvasPixel(<< exposureOf(originalAt(p)[1]),
                                                  exposureOf(originalAt(p)[2]),
                                                  exposureOf(originalAt(p)[3]),
                                                  originalAt(p)[4] >>)

\* the gray pixel at exposure 50
ExposureLawWitness ==
    /\ filtersRan
    /\ applied = [ n \in SliderNames |-> IF n = "exposure" THEN 50 ELSE 0 ]
    /\ pixelAt(originalImageData, 1, 0) = << 128, 128, 128, 255 >>
    /\ pixelAt(canvasAfterHidden, 1, 0) = << 178, 178, 178, 255 >>

\* C13: the temperature step with t > 0 raises red by 0.6 t and lowers blue by
\* 0.4 t, with t <= 0 it changes red by 0.4 t and blue by -0.6 t; it never
\* changes green and t = 0 changes nothing.  With every other slider at 0 the
\* pixel stored is that one, clamped and rounded.
TemperatureAsymmetric ==
    filtersRan =>
        /\ sameSize
        /\ \A p \in places :
               LET t == applied.temperature
                   into == afterStep(2, originalAt(p), applied)
                   out == afterStep(3, originalAt(p), applied)
                   px == originalAt(p)
               IN  /\ out.g = into.g
                   /\ t > 0 => /\ 10 * (out.r - into.r) = 6 * t * ContrastScale
                               /\ 10 * (out.b - into.b) = -4 * t * ContrastScale
                   /\ t <= 0 => /\ 10 * (out.r - into.r) = 4 * t * ContrastScale
                                /\ 10 * (out.b - into.b) = -6 * t * ContrastScale
                   /\ t = 0 => out = into
                   /\ onlySlider("temperature") =>
                          filteredAt(p) = canvasPixel(
                              << storedAt(10 * px[1] + (IF t > 0 THEN 6 * t ELSE 4 * t), 10),
                                 px[2],
                                 storedAt(10 * px[3] - (IF t > 0 THEN 4 * t ELSE 6 * t), 10),
                                 px[4] >>)

\* t = -100 cools (200, 100, 50): red 200 - 40, blue 50 + 60
TemperatureAsymmetricWitness ==
    /\ filtersRan
    /\ applied = [ n \in SliderNames |-> IF n = "temperature" THEN -100 ELSE 0 ]
    /\ pixelAt(originalImageData, 0, 0) = << 200, 100, 50, 255 >>
    /\ pixelAt(canvasAfterHidden, 0, 0) = << 160, 100, 110, 255 >>

\* C14: the tint step changes green by -0.5 t for a tint t of either sign and
\* changes neither red nor blue.  With every other slider at 0 the pixel
\* stored is that one, clamped and rounded.
TintSymmetric ==
    filtersRan =>
        /\ sameSize
        /\ \A p \in places :
               LET t == applied.tint
                   into == afterStep(3, originalAt(p), applied)
                   out == afterStep(4, originalAt(p), applied)
                   px == originalAt(p)
               IN  /\ out.r = into.r
                   /\ out.b = into.b
                   /\ 10 * (out.g - into.g) = -5 * t * ContrastScale
                   /\ onlySlider("tint") =>
                          filteredAt(p) = canvasPixel(
                              << px[1], storedAt(10 * px[2] - 5 * t, 10), px[3], px[4] >>)

\* t = -100 raises the green of (200, 100, 50) by 50
TintSymmetricWitness ==
    /\ filtersRan
    /\ applied = [ n \in SliderNames |-> IF n = "tint" THEN -100 ELSE 0 ]
    /\ pixelAt(originalImageData, 0, 0) = << 200, 100, 50, 255 >>
    /\ pixelAt(canvasAfterHidden, 0, 0) = << 200, 150, 50, 255 >>

(***************************************************************************)
(* Properties of the handlers around the pipeline.                         *)
(***************************************************************************)
allSlidersZero(e) == e.sliders = [ n \in SliderNames |-> 0 ]

\* C15: Reset All on a loaded image sets the eight sliders to 0 and makes the
\* 'after' canvas equal to the original buffer at every pixel and channel,
\* whatever the image and the filters applied before; originalImage and
\* originalImageData are kept.
ResetRestoresOriginal ==
    sessionLoaded =>
        LET after == handleReset(state)
        IN  /\ allSlidersZero(after)
            /\ after.canvasAfterHidden = after.originalImageData
            /\ after.originalImage = originalImage
            /\ after.originalImageData = originalImageData

\* what the reset does restore: the sliders, the session, and every pixel whose
\* original is opaque or fully transparent
ResetRestoresOpaque ==
    sessionLoaded =>
        LET after == handleReset(state)
        IN  /\ allSlidersZero(after)
            /\ after.originalImage = originalImage
            /\ after.originalImageData = originalImageData
            /\ after.canvasAfterHidden.width = originalImageData.width
            /\ after.canvasAfterHidden.height = originalImageData.height
            /\ \A p \in places :
                   originalAt(p)[4] \in { 0, 255 } =>
                       pixelAt(after.canvasAfterHidden, p[1], p[2]) = originalAt(p)

\* the uploads whose load event is queued, and whether the run of the load
\* handler would go through: it neither throws nor reports an error
loadsDue == { k \in DOMAIN uploads : uploads[k].stage = "complete" }
loadSucceeds(k) == imageOnload(state, k).error = "" /\ imageOnload(state, k).alert = ""

\* C16, as amended: a run of applyFilters, a slider move, Reset All and a theme
\* switch leave the view mode as it is, and a successful image load sets it to
\* 'after' (with the 'after' button active) whatever the user had selected.
ViewModeOnLoad ==
    /\ applyFilters(state).currentViewMode = currentViewMode
    /\ debounce(state).currentViewMode = currentViewMode
    /\ handleReset(state).currentViewMode = currentViewMode
    /\ handleThemeToggle(state).currentViewMode = currentViewMode
    /\ \A k \in loadsDue :
           loadSucceeds(k) =>
               /\ imageOnload(state, k).currentViewMode = "after"
               /\ imageOnload(state, k).activeButtons = { "after" }

\* the user has selected Split on one image and the load event of the next
\* image is due
ViewModeOnLoadWitness ==
    /\ ~noSession(state)
    /\ currentViewMode = "split"
    /\ \E k \in loadsDue :
           /\ loadSucceeds(k)
           /\ imageOnload(state, k).originalImageData # originalImageData
           /\ imageOnload(state, k).currentViewMode = "after"

\* C16, as stated: the view mode the user selected is still the view mode
\* after another image is loaded.
ViewModePersistsAcrossLoad ==
    \A k \in loadsDue :
        loadSucceeds(k) => imageOnload(state, k).currentViewMode = currentViewMode

\* C17: after every successful image load the view mode is 'after', the eight
\* sliders are 0, the 'after' canvas equals the original buffer and the main
\* canvas shows the 'after' canvas.
LoadDefaults ==
    \A k \in loadsDue :
        loadSucceeds(k) =>
            LET after == imageOnload(state, k)
            IN  /\ ~noSession(after)
                /\ after.currentViewMode = "after"
                /\ allSlidersZero(after)
                /\ after.canvasAfterHidden = after.originalImageData
                /\ after.mainCanvas = after.canvasAfterHidden
                /\ after.splitLine = << >>

\* the load event of another image is due while the sliders are moved, the
\* 'after' canvas is filtered and the original is shown
LoadDefaultsWitness ==
    /\ ~noSession(state)
    /\ filtersRan
    /\ sliders.exposure # 0
    /\ currentViewMode = "before"
    /\ canvasAfterHidden # originalImageData
    /\ \E k \in loadsDue :
           LET after == imageOnload(state, k)
           IN  /\ loadSucceeds(k)
               /\ after.originalImageData # originalImageData
               /\ allSlidersZero(after)
               /\ after.mainCanvas = after.originalImageData

\* the runs of the handlers of a failed upload on the state: no file or a file
\* that is no image, a read error, a decode error, and a load handler that
\* could not read the pixel data
failedUploads ==
    { handleImageUpload(state, file) :
        file \in { f \in Files \cup { NoFile } : f = NoFile \/ ~isImageType(f.type) } }
    \cup { readerOnerror(state, k) :
             k \in { j \in DOMAIN uploads :
                       uploads[j].stage = "reading" /\ ~uploads[j].file.readable } }
    \cup { imageOnerror(state, k) :
             k \in { j \in DOMAIN uploads : uploads[j].stage = "broken" } }
    \cup { r \in { imageOnload(state, k) : k \in loadsDue } : r.alert # "" }

ExportFailureResets ==
    sessionLoaded =>
        \A selected \in ExportFormats :
            [ handleExport(state, selected, FALSE) EXCEPT !.alert = "" ] = resetAll(state)

\* the fields the guarded handlers must leave alone
untouched(after) ==
    /\ after.currentViewMode = currentViewMode
    /\ after.activeButtons = activeButtons
    /\ after.sliders = sliders
    /\ after.originalImage = originalImage
    /\ after.originalImageData = originalImageData
    /\ after.canvasBeforeHidden = canvasBeforeHidden
    /\ after.canvasAfterHidden = canvasAfterHidden
    /\ after.mainCanvas = mainCanvas
    /\ after.splitLine = splitLine
    /\ after.applied = applied
    /\ after.error = ""

\* C20: while originalImage or originalImageData is null, a fired
\* applyFilters, a click on any view button and Reset All change neither the
\* view mode, the active button, the sliders, the session variables nor a
\* canvas: the pixel loop and the compositing do not run.
GuardedWithoutSession ==
    noSession(state) =>
        /\ untouched(applyFilters(state))
        /\ \A id \in timers : untouched(applyFilters(clearTimeout(state, id)))
        /\ \A mode \in ViewModes : untouched(handleViewChange(state, mode))
        /\ untouched(handleReset(state))

\* an Image object exists but its data is not stored yet, a slider has been
\* moved and its timer is pending
GuardedWithoutSessionWitness ==
    /\ originalImage # 0
    /\ originalImageData = NULL
    /\ sliders.exposure = 100
    /\ timers # { }
    /\ \E id \in timers : untouched(applyFilters(clearTimeout(state, id)))
    /\ untouched(handleViewChange(state, "split"))

(***************************************************************************)
(* Properties of the debounce, the export and the theme.                   *)
(***************************************************************************)
\* the input event of the slider name, moved to value
inputOn(e, name, value) == debounce([ e EXCEPT !.sliders[name] = value ])

\* C21: at most one apply is pending at any time, the one debounceTimer names;
\* an input event on any of the eight sliders leaves exactly one pending,
\* whether or not one was pending before, a second event of the burst again
\* leaves exactly one, and when that one fires none is left.
DebounceCoalesces ==
    /\ Cardinality(timers) <= 1
    /\ timers \subseteq { debounceTimer }
    /\ \A name \in SliderNames :
           LET first == inputOn(state, name, 100)
               second == inputOn(first, name, 0)
           IN  /\ Cardinality(first.timers) = 1
               /\ first.timers = { first.debounceTimer }
               /\ Cardinality(second.timers) = 1
               /\ \A id \in second.timers :
                      applyFilters(clearTimeout(second, id)).timers = { }

\* an apply is pending on a loaded image when the next input event arrives
DebounceCoalescesWitness ==
    /\ sessionLoaded
    /\ timers # { }
    /\ sliders.exposure = 100
    /\ applied # sliders
    /\ Cardinality(inputOn(state, "tint", 100).timers) = 1

\* C22: an export encodes the hidden 'after' canvas, whatever the view mode
\* and the theme are, with quality 0.92, under the name edited_image.jpg for
\* image/jpeg and edited_image.png for any other format.
ExportsFiltered ==
    (originalImage # 0 /\ canvasAfterHidden.width # 0) =>
        \A selected \in ExportFormats \cup { "", "image/webp" } :
            handleExport(state, selected, TRUE).download =
                << [ image |-> canvasAfterHidden,
                     format |-> IF selected = "" THEN "image/png" ELSE selected,
                     quality |-> 92,
                     filename |-> IF selected = "image/jpeg" THEN "edited_image.jpg"
                                                             ELSE "edited_image.png" ] >>

\* an export in split view, dark theme: the frame shown, with its dividing
\* line, differs from the 'after' canvas, which differs from the original
ExportsFilteredWitness ==
    /\ sessionLoaded
    /\ currentViewMode = "split"
    /\ theme = "dark"
    /\ splitLine # << >>
    /\ filtersRan
    /\ mainCanvas # canvasAfterHidden
    /\ canvasAfterHidden # originalImageData
    /\ handleExport(state, "image/jpeg", TRUE).download[1].image = canvasAfterHidden
    /\ handleExport(state, "image/jpeg", TRUE).download[1].filename = "edited_image.jpg"

\* C24: the theme saved under imageEditorTheme is the active theme, light or
\* dark; the page load applies the saved theme, or light when none is saved;
\* a toggle switches between light and dark and saves the new theme, and two
\* toggles restore the theme.
ThemePersisted ==
    /\ storedTheme = theme
    /\ theme \in { "light", "dark" }
    /\ \A saved \in SavedThemes :
           /\ pageLoaded(saved).theme = IF saved = "" THEN "light" ELSE saved
           /\ pageLoaded(saved).storedTheme = pageLoaded(saved).theme
    /\ handleThemeToggle(state).theme = IF theme = "dark" THEN "light" ELSE "dark"
    /\ handleThemeToggle(state).storedTheme = handleThemeToggle(state).theme
    /\ handleThemeToggle(handleThemeToggle(state)).theme = theme

\* the dark theme is active and saved while an image is shown in split view
ThemePersistedWitness ==
    /\ sessionLoaded
    /\ currentViewMode = "split"
    /\ theme = "dark"
    /\ storedTheme = "dark"
    /\ splitLine # << >>
    /\ handleThemeToggle(state).storedTheme = "light"

\* C23: whenever Export is clicked on a loaded image, the image exported is
\* the pipeline applied to the original buffer with the slider values at the
\* click.
ExportIsCurrent ==
    sessionLoaded =>
        \A selected \in ExportFormats :
            handleExport(state, selected, TRUE).download[1].image
                = filteredOf(originalImageData, sliders)

\* a slider was moved on a freshly loaded image and its timer has not fired:
\* the 'after' canvas an export would encode is still the unfiltered original
ExportDuringDebounce ==
    /\ sessionLoaded
    /\ timers # { }
    /\ applied = NoFilter
    /\ sliders.exposure = 100
    /\ canvasAfterHidden = originalImageData
    /\ handleExport(state, "image/png", TRUE).download[1].image
           # filteredOf(originalImageData, sliders)

\* C26: originalImage and originalImageData are both null or both belong to
\* one successfully decoded image, in every state: the Image object named by
\* originalImage has been decoded and its load handler has run, and
\* originalImageData is the pixel data of that image.
SessionAtomic ==
    /\ (originalImage = 0) <=> (originalImageData = NULL)
    /\ originalImage # 0 =>
           /\ uploads[originalImage].stage = "loaded"
           /\ originalImageData
                  = loadedWith(uploads[originalImage].file).originalImageData

\* C28: in every state in which an image is loaded and no apply is pending,
\* the 'after' canvas is the pipeline applied to the original buffer with the
\* current values of the eight sliders.
QuiescentConsistent ==
    (sessionLoaded /\ timers = { }) =>
        canvasAfterHidden = filteredOf(originalImageData, sliders)

\* the same at the places whose original pixel is opaque or fully transparent
QuiescentConsistentOpaque ==
    (sessionLoaded /\ timers = { }) =>
        /\ sameSize
        /\ \A p \in places :
               originalAt(p)[4] \in { 0, 255 } =>
                   filteredAt(p) = pixelAt(filteredOf(originalImageData, sliders), p[1], p[2])

\* C30: Export produces a file only when an image has been loaded and
\* processed; in every other state a click on Export shows the alert and
\* encodes nothing.
ExportGuarded ==
    ~sessionLoaded =>
        \A selected \in ExportFormats, blob \in BOOLEAN :
            /\ handleExport(state, selected, blob).download = << >>
            /\ handleExport(state, selected, blob).alert
                   = "Please load and optionally edit an image before exporting."

\* the first file selected is read and its Image object is still decoding: an
\* export encodes the empty default canvas
ExportWhileDecoding ==
    /\ originalImage # 0
    /\ originalImageData = NULL
    /\ uploads[originalImage].stage = "decoding"
    /\ canvasAfterHidden = blank(DefaultCanvasWidth, DefaultCanvasHeight)
    /\ handleExport(state, "image/png", TRUE).download # << >>

\* a second file was read while a filtered image is shown: originalImage names
\* the Image object still decoding, originalImageData is the data of the image
\* before, and Reset All zeroes the sliders and leaves the 'after' canvas
\* filtered
ResetWhileDecoding ==
    /\ originalImage # 0
    /\ uploads[originalImage].stage = "decoding"
    /\ originalImageData # NULL
    /\ originalImageData
           # loadedWith(uploads[originalImage].file).originalImageData
    /\ filtersRan
    /\ canvasAfterHidden # originalImageData
    /\ allSlidersZero(handleReset(state))
    /\ handleReset(state).canvasAfterHidden = canvasAfterHidden

\* Reset All was clicked on a loaded image with a partially transparent pixel:
\* no apply is pending, the sliders are 0 and the 'after' canvas is not the
\* original
ResetLeavesBlend ==
    /\ sessionLoaded
    /\ timers = { }
    /\ allSlidersZero(state)
    /\ applied = NoFilter
    /\ canvasAfterHidden # originalImageData
    /\ canvasAfterHidden # filteredOf(originalImageData, sliders)

\* the main canvas holds the frame of the current view mode
frameShowsView ==
    /\ mainCanvas.width = originalImageData.width
    /\ mainCanvas.height = originalImageData.height
    /\ \A p \in places :
           pixelAt(mainCanvas, p[1], p[2]) =
               IF \/ currentViewMode = "before"
                  \/ currentViewMode = "split" /\ 2 * (p[1] + 1) <= mainCanvas.width
               THEN originalAt(p)
               ELSE filteredAt(p)

\* no apply is pending, and the 'after' canvas and the frame shown are those
\* of the current slider values
applyDone ==
    /\ timers = { }
    /\ applied = sliders
    /\ canvasAfterHidden = filteredOf(originalImageData, sliders)
    /\ frameShowsView

\* C29: on a loaded image, if the slider inputs eventually stop, a pending
\* timer leads to a state in which it has fired, no apply is pending, and the
\* 'after' canvas and the visible canvas are those of the slider values of
\* that state.
EventuallyApplied ==
    \/ []<><<SliderInput>>_vars
    \/ (sessionLoaded /\ timers # { }) ~> applyDone

\* the timer has fired after a slider move: nothing is pending and the frame
\* shows the filtered image
EventuallyAppliedWitness ==
    /\ sessionLoaded
    /\ applyDone
    /\ sliders.exposure = 100
    /\ currentViewMode = "after"
    /\ mainCanvas # originalImageData

\* the load events whose handler finds originalImage naming an image of width
\* or height 0, and what the handler and a run of applyFilters after it leave
zeroPixelLoads ==
    { k \in loadsDue :
        originalImage # 0 /\ (imageWidth(state) = 0 \/ imageHeight(state) = 0) }
zeroPixels(bitmap) == bitmap # NULL /\ bitmap.width * bitmap.height = 0

\* C25: the load path on an image of width or height 0 ends without an error
\* and without an alert, in a session whose original buffer and 'after' canvas
\* have no pixels, and applyFilters runs on that session without an error and
\* leaves the 'after' canvas without pixels.
ZeroPixelValid ==
    \A k \in zeroPixelLoads :
        /\ imageOnload(state, k).error = ""
        /\ imageOnload(state, k).alert = ""
        /\ ~noSession(imageOnload(state, k))
        /\ zeroPixels(imageOnload(state, k).originalImageData)
        /\ zeroPixels(imageOnload(state, k).canvasAfterHidden)
        /\ applyFilters(imageOnload(state, k)).error = ""
        /\ zeroPixels(applyFilters(imageOnload(state, k)).canvasAfterHidden)

\* a load event is due while originalImage names an image of width 0: its
\* handler shows the alert and resets the editor
ZeroPixelLoadResets ==
    \E k \in zeroPixelLoads :
        /\ imageOnload(state, k).alert # ""
        /\ noSession(imageOnload(state, k))
        /\ imageOnload(state, k).originalImage = 0
        /\ imageOnload(state, k).error = ""

\* C27: with two uploads overlapping, no load handler fails or clears the
\* session, and when no upload is pending the editor holds a session of one of
\* the files: the image object is loaded, the original buffer is the one of
\* that image, and the three canvases have its size.
OverlapSettles ==
    /\ \A k \in loadsDue : loadSucceeds(k) /\ ~noSession(imageOnload(state, k))
    /\ (\A k \in DOMAIN uploads : ~pending(uploads[k].stage)) =>
           /\ sessionLoaded
           /\ originalImageData
                  = loadedWith(uploads[originalImage].file).originalImageData
           /\ \A canvas \in { mainCanvas, canvasBeforeHidden, canvasAfterHidden } :
                  /\ canvas.width = imageWidth(state)
                  /\ canvas.height = imageHeight(state)

\* the load event of the second image is due after the load handler of the
\* first one reset the editor: originalImage is null and the handler throws
OverlapLoadThrows ==
    /\ originalImage = 0
    /\ originalImageData = NULL
    /\ \E k \in loadsDue : imageOnload(state, k).error = "TypeError"

\* the offset the highlight and the shadow step add to each channel of the
\* triple c, over HSScale: brightness = clamp((r + g + b) / 765, 0, 1) is taken
\* once from c, the highlights weigh it and the shadows weigh 1 - brightness
toneOffset(c, s) ==
    LET sum == BAdd(BAdd(c.r, c.g), c.b)
        brightness == IF BLess(sum, BZero) THEN BZero
                      ELSE IF BLess(FullBrightness, sum) THEN FullBrightness ELSE sum
    IN  BAdd(BMul(brightness, s.highlights),
             BMul(BSub(FullBrightness, brightness), s.shadows))

\* the triple c, over SatScale, with the offset added to its three channels
toned(c, s) ==
    [ r |-> BAdd(BMul(c.r, 300), toneOffset(c, s)),
      g |-> BAdd(BMul(c.g, 300), toneOffset(c, s)),
      b |-> BAdd(BMul(c.b, 300), toneOffset(c, s)) ]

\* C35: after a run, every pixel of the 'after' canvas is the pixel after the
\* saturation step with (highlights/100) * brightness * 255 and
\* (shadows/100) * (1 - brightness) * 255 added to its three channels,
\* brightness = clamp((r + g + b) / 765, 0, 1) taken once from the values after
\* the saturation step, then sepia and the store; with every other slider at
\* 0 a black pixel is unchanged at every highlights value and a white pixel
\* is unchanged at every shadows value.
ToneLaw ==
    filtersRan =>
        /\ sameSize
        /\ \A p \in places :
               /\ filteredAt(p) =
                      canvasPixel(storedPixel(
                          sepiaStep(toned(afterStep(5, originalAt(p), applied), applied),
                                    applied.sepia),
                          originalAt(p)[4]))
               /\ (onlySlider("highlights") /\ originalAt(p) = << 0, 0, 0, 255 >>)
                      => filteredAt(p) = originalAt(p)
               /\ (onlySlider("shadows") /\ originalAt(p) = << 255, 255, 255, 255 >>)
                      => filteredAt(p) = originalAt(p)

\* shadows at 100 alone: the white pixel is unchanged, the black one is lifted
\* to white and the gray one, brightness 384/765, by 255 * 381/765 = 127 to 255
ToneLawWitness ==
    /\ filtersRan
    /\ onlySlider("shadows")
    /\ applied.shadows = 100
    /\ pixelAt(originalImageData, 1, 0) = << 255, 255, 255, 255 >>
    /\ pixelAt(canvasAfterHidden, 1, 0) = << 255, 255, 255, 255 >>
    /\ pixelAt(originalImageData, 0, 0) = << 0, 0, 0, 255 >>
    /\ pixelAt(canvasAfterHidden, 0, 0) = << 255, 255, 255, 255 >>
    /\ pixelAt(canvasAfterHidden, 2, 0) = << 255, 255, 255, 255 >>

\* C32: in every reachable state currentViewMode is 'before', 'after' or
\* 'split', so that the fallback of updateMainCanvasView is never taken, and
\* exactly one view button is active, the one of currentViewMode.
ViewModeExclusive ==
    /\ currentViewMode \in ViewModes
    /\ Cardinality(activeButtons) = 1
    /\ activeButtons = { currentViewMode }

\* the split button was clicked on a loaded image, after the 'after' button
\* was the active one at load
ViewModeExclusiveWitness ==
    /\ sessionLoaded
    /\ currentViewMode = "split"
    /\ activeButtons = { "split" }
    /\ splitLine # << >>

\* the view mode and the active buttons of e are those of the state
sameView(e) ==
    e.currentViewMode = currentViewMode /\ e.activeButtons = activeButtons

\* C33: applyFilters, Reset All, a theme toggle, an export and a view-button
\* click without a loaded image leave currentViewMode and the active view
\* button as they are; a view-button click on a loaded image, an image load
\* and a full reset set them.
ViewModeFrame ==
    /\ sameView(applyFilters(state))
    /\ sameView(handleReset(state))
    /\ sameView(handleThemeToggle(state))
    /\ \A selected \in ExportFormats, blob \in BOOLEAN :
           sameView(handleExport(state, selected, blob))
    /\ \A mode \in ViewModes :
           /\ noSession(state) => sameView(handleViewChange(state, mode))
           /\ ~noSession(state) =>
                  /\ handleViewChange(state, mode).currentViewMode = mode
                  /\ handleViewChange(state, mode).activeButtons = { mode }
    /\ \A k \in loadsDue :
           loadSucceeds(k) => imageOnload(state, k).activeButtons = { "after" }
    /\ resetAll(state).currentViewMode = "after"
    /\ resetAll(state).activeButtons = { "after" }

\* the split view is selected on a filtered image: Reset All sets the sliders
\* to 0 and redraws, an export saves a file, the theme toggles and the line is
\* stroked anew, and the view stays 'split'
ViewModeFrameWitness ==
    /\ sessionLoaded
    /\ filtersRan
    /\ currentViewMode = "split"
    /\ sliders.exposure # 0
    /\ allSlidersZero(handleReset(state))
    /\ handleReset(state).currentViewMode = "split"
    /\ handleExport(state, "image/png", TRUE).download # << >>
    /\ handleThemeToggle(state).splitLine # splitLine
    /\ handleThemeToggle(state).activeButtons = { "split" }

\* C34: in every reachable state the visible canvas and the two hidden
\* canvases have the same width and height, and the original buffer, when
\* there is one, has that width and height too.
DimensionsAgree ==
    /\ \A canvas \in { canvasBeforeHidden, canvasAfterHidden } :
           /\ canvas.width = mainCanvas.width
           /\ canvas.height = mainCanvas.height
    /\ originalImageData # NULL =>
           /\ originalImageData.width = mainCanvas.width
           /\ originalImageData.height = mainCanvas.height

\* a load handler sized the canvases by a broken image and threw at drawImage:
\* the canvases are 0 x 0, the original buffer of the former image is kept,
\* and the 'before' view puts it on the empty canvas
SizedThenThrown ==
    /\ originalImage # 0
    /\ imageBroken(state)
    /\ originalImageData # NULL
    /\ originalImageData.width = 2
    /\ mainCanvas.width = 0
    /\ canvasBeforeHidden.width = 0
    /\ handleViewChange(state, "before").currentViewMode = "before"
    /\ handleViewChange(state, "before").mainCanvas.width = 0

\* the dashed line of the split view on a canvas of width w and height h:
\* 1 pixel wide, 4 on and 2 off, at x = floor(w / 2), translucent white on the
\* dark theme and translucent black on the light one
dashedLine(w, h) ==
    << [ x |-> w \div 2, y0 |-> 0, y1 |-> h,
         strokeStyle |-> IF theme = "dark" THEN "rgba(255, 255, 255, 0.6)"
                                           ELSE "rgba(0, 0, 0, 0.6)",
         lineWidth |-> 1,
         lineDash |-> << 4, 2 >> ] >>

\* C31: in every reachable state the visible canvas is blank when no image is
\* loaded; with an image it is the original buffer in mode 'before', the
\* 'after' canvas in mode 'after', and in mode 'split' the original left of
\* floor(W/2), the 'after' canvas from there on and the dashed line of the
\* current theme at floor(W/2); no line is drawn in the other modes.
FrameReflects ==
    /\ noSession(state) => mainCanvas.data = << >> /\ splitLine = << >>
    /\ (~noSession(state) /\ currentViewMode = "before") =>
           mainCanvas = originalImageData /\ splitLine = << >>
    /\ (~noSession(state) /\ currentViewMode = "after") =>
           mainCanvas = canvasAfterHidden /\ splitLine = << >>
    /\ (~noSession(state) /\ currentViewMode = "split") =>
           /\ mainCanvas.width = originalImageData.width
           /\ mainCanvas.height = originalImageData.height
           /\ \A p \in places :
                  pixelAt(mainCanvas, p[1], p[2]) =
                      IF p[1] < mainCanvas.width \div 2 THEN originalAt(p)
                                                         ELSE filteredAt(p)
           /\ splitLine = dashedLine(mainCanvas.width, mainCanvas.height)

\* the split view was selected on a loaded image, and the load handler of an
\* overlapping upload sized the canvases by a broken image and threw: an
\* original buffer is held, the visible canvas is empty and has no line
FrameLostInSplit ==
    /\ ~noSession(state)
    /\ imageBroken(state)
    /\ currentViewMode = "split"
    /\ originalImageData.width = 2
    /\ mainCanvas = blank(0, 0)
    /\ splitLine = << >>

=============================================================================
